---- MODULE Spec2Model ----
(***************************************************************************)
(* A model of process_pdfs.py: the PDF outline extractor                   *)
(* (PDFOutlineExtractor) and the batch driver (process_pdfs).              *)
(*                                                                         *)
(* A Python str is a sequence of one-character strings.  A font size is a  *)
(* whole number of points; a mean font size is the exact fraction          *)
(* sum/len, kept as [num, den].                                            *)
(***************************************************************************)
EXTENDS Integers, Sequences, FiniteSets, TLC

(***************************************************************************)
(* Characters and the str methods the code uses.                           *)
(***************************************************************************)
UpperSeq ==
    << "A", "B", "C", "D", "E", "F", "G", "H", "I", "J", "K", "L", "M",
       "N", "O", "P", "Q", "R", "S", "T", "U", "V", "W", "X", "Y", "Z" >>

LowerSeq ==
    << "a", "b", "c", "d", "e", "f", "g", "h", "i", "j", "k", "l", "m",
       "n", "o", "p", "q", "r", "s", "t", "u", "v", "w", "x", "y", "z" >>

Upper == { UpperSeq[i] : i \in DOMAIN UpperSeq }

Lower == { LowerSeq[i] : i \in DOMAIN LowerSeq }

Digit == { "0", "1", "2", "3", "4", "5", "6", "7", "8", "9" }

\* what str.strip(), str.split() and the regex class \s treat as whitespace
Whitespace == { " ", "\t", "\n" }

\* the other case of a letter (re.IGNORECASE compares both cases)
SwapCase(c) ==
    IF c \in Upper THEN LowerSeq[CHOOSE i \in DOMAIN UpperSeq : UpperSeq[i] = c]
    ELSE IF c \in Lower THEN UpperSeq[CHOOSE i \in DOMAIN LowerSeq : LowerSeq[i] = c]
    ELSE c

RECURSIVE LStrip(_)
LStrip(s) ==
    IF s # << >> /\ Head(s) \in Whitespace THEN LStrip(Tail(s)) ELSE s

RECURSIVE RStrip(_)
RStrip(s) ==
    IF s # << >> /\ s[Len(s)] \in Whitespace
    THEN RStrip(SubSeq(s, 1, Len(s) - 1))
    ELSE s

\* str.strip()
Strip(s) == RStrip(LStrip(s))

\* len(str.split()): the number of maximal runs of non-whitespace
WordCount(s) ==
    Cardinality({ i \in DOMAIN s :
                    /\ s[i] \notin Whitespace
                    /\ (i = 1 \/ s[i - 1] \in Whitespace) })

\* str.startswith(p)
StartsWith(s, p) == Len(s) >= Len(p) /\ SubSeq(s, 1, Len(p)) = p

\* str.startswith(tuple)
StartsWithAny(s, ps) == \E p \in ps : StartsWith(s, p)

\* str.endswith(tuple of single characters)
EndsWithAny(s, cs) == s # << >> /\ s[Len(s)] \in cs

(***************************************************************************)
(* Regular expressions: the syntax tree of a pattern, and re.match.        *)
(* Ends(r, s, P, ic) is the set of positions where a match of r that       *)
(* starts at a position of P can end; re.match finds a match exactly when  *)
(* some match exists, so lazy and greedy repetition are the same here.     *)
(***************************************************************************)
Cls(S) == [t |-> "cls", set |-> S, neg |-> FALSE]

NotCls(S) == [t |-> "cls", set |-> S, neg |-> TRUE]

Eol == [t |-> "eol"]

Cat(rs) == [t |-> "cat", rs |-> rs]

Alt(a, b) == [t |-> "alt", a |-> a, b |-> b]

\* r{lo,hi}; hi = -1 is "no upper limit"
Rep(r, lo, hi) == [t |-> "rep", r |-> r, lo |-> lo, hi |-> hi]

Star(r) == Rep(r, 0, -1)

Plus(r) == Rep(r, 1, -1)

Opt(r) == Rep(r, 0, 1)

\* a literal word
Lit(w) == Cat([i \in DOMAIN w |-> Cls({w[i]})])

InCls(r, c, ic) ==
    LET in == c \in r.set \/ (ic /\ SwapCase(c) \in r.set)
    IN  IF r.neg THEN ~in ELSE in

\* c*, c a character class: from each position of P, to the end of every
\* run of characters of the class that starts there
ClsRun(r, s, P, ic) ==
    LET bad == { k \in DOMAIN s : ~InCls(r, s[k], ic) }
    IN  { q \in 0..Len(s) :
            \E p \in P : p <= q /\ \A b \in bad : b <= p \/ b > q }

RECURSIVE Ends(_, _, _, _)
RECURSIVE CatEnds(_, _, _, _, _)
RECURSIVE RepEnds(_, _, _, _, _, _)
RECURSIVE StarEnds(_, _, _, _, _)

Ends(r, s, P, ic) ==
    IF P = {} THEN {}
    ELSE CASE r.t = "cls" ->
                { p + 1 : p \in { q \in P : q < Len(s) /\ InCls(r, s[q + 1], ic) } }
           [] r.t = "eol" ->
                { p \in P : \/ p = Len(s)
                            \/ p = Len(s) - 1 /\ s[Len(s)] = "\n" }
           [] r.t = "cat" -> CatEnds(r.rs, 1, s, P, ic)
           [] r.t = "alt" -> Ends(r.a, s, P, ic) \cup Ends(r.b, s, P, ic)
           [] r.t = "rep" -> RepEnds(r.r, r.lo, r.hi, s, P, ic)

CatEnds(rs, k, s, P, ic) ==
    IF k > Len(rs) THEN P
    ELSE CatEnds(rs, k + 1, s, Ends(rs[k], s, P, ic), ic)

\* every position reachable from `frontier` by more repetitions of r
StarEnds(r, s, frontier, seen, ic) ==
    LET new == Ends(r, s, frontier, ic) \ seen
    IN  IF new = {} THEN seen ELSE StarEnds(r, s, new, seen \cup new, ic)

RepEnds(r, lo, hi, s, P, ic) ==
    IF P = {} THEN {}
    ELSE IF lo > 0
         THEN RepEnds(r, lo - 1, IF hi = -1 THEN -1 ELSE hi - 1, s,
                      Ends(r, s, P, ic), ic)
    ELSE IF hi = -1
         THEN IF r.t = "cls" THEN ClsRun(r, s, P, ic) ELSE StarEnds(r, s, P, P, ic)
    ELSE IF hi = 0 THEN P
    ELSE P \cup RepEnds(r, 0, hi - 1, s, Ends(r, s, P, ic), ic)

\* re.match(pattern, text) is not None; ic is re.IGNORECASE
ReMatch(r, s, ic) == Ends(r, s, {0}, ic) # {}

(***************************************************************************)
(* PDFOutlineExtractor.__init__: the thresholds and heading_patterns.      *)
(***************************************************************************)
title_min_size == 16

h1_min_size == 14

h2_min_size == 12

h3_min_size == 11

ClsDigit == Cls(Digit)

ClsDot == Cls({"."})

ClsSpace == Cls(Whitespace)

ClsAZ == Cls(Upper)

Clsaz == Cls(Lower)

\* [^.!?]*?$ : the tail of the numbered patterns
TailNoStop == Cat(<< Star(NotCls({".", "!", "?"})), Eol >>)

W_Chapter == << "C", "h", "a", "p", "t", "e", "r" >>

W_Section == << "S", "e", "c", "t", "i", "o", "n" >>

W_Part == << "P", "a", "r", "t" >>

heading_patterns ==
    << \* ^(\d+\.?\s+[A-Z][^.!?]*?)$
       Cat(<< Plus(ClsDigit), Opt(ClsDot), Plus(ClsSpace), ClsAZ, TailNoStop >>),
       \* ^(\d+\.\d+\.?\s+[A-Z][^.!?]*?)$
       Cat(<< Plus(ClsDigit), ClsDot, Plus(ClsDigit), Opt(ClsDot),
              Plus(ClsSpace), ClsAZ, TailNoStop >>),
       \* ^(\d+\.\d+\.\d+\.?\s+[A-Z][^.!?]*?)$
       Cat(<< Plus(ClsDigit), ClsDot, Plus(ClsDigit), ClsDot, Plus(ClsDigit),
              Opt(ClsDot), Plus(ClsSpace), ClsAZ, TailNoStop >>),
       \* ^([IVX]+\.?\s+[A-Z][^.!?]*?)$
       Cat(<< Plus(Cls({"I", "V", "X"})), Opt(ClsDot), Plus(ClsSpace), ClsAZ,
              TailNoStop >>),
       \* ^([A-Z]\.?\s+[A-Z][^.!?]*?)$
       Cat(<< ClsAZ, Opt(ClsDot), Plus(ClsSpace), ClsAZ, TailNoStop >>),
       \* ^(Chapter\s+\d+[:\s]+[A-Z][^.!?]*?)$
       Cat(<< Lit(W_Chapter), Plus(ClsSpace), Plus(ClsDigit),
              Plus(Cls({":"} \cup Whitespace)), ClsAZ, TailNoStop >>),
       \* ^(Section\s+\d+[:\s]+[A-Z][^.!?]*?)$
       Cat(<< Lit(W_Section), Plus(ClsSpace), Plus(ClsDigit),
              Plus(Cls({":"} \cup Whitespace)), ClsAZ, TailNoStop >>),
       \* ^([A-Z\s]{3,30})$
       Cat(<< Rep(Cls(Upper \cup Whitespace), 3, 30), Eol >>),
       \* ^([A-Z][a-z]+(?:\s+[A-Z][a-z]+)*(?:\s+[a-z]+)*)$
       Cat(<< ClsAZ, Plus(Clsaz),
              Star(Cat(<< Plus(ClsSpace), ClsAZ, Plus(Clsaz) >>)),
              Star(Cat(<< Plus(ClsSpace), Plus(Clsaz) >>)), Eol >>) >>

\* any(re.match(pattern, text, re.IGNORECASE) for pattern in patterns)
AnyMatch(patterns, text) ==
    \E k \in DOMAIN patterns : ReMatch(patterns[k], text, TRUE)

(***************************************************************************)
(* is_bold and is_likely_heading.                                          *)
(***************************************************************************)
\* bool(flags & 2**4)
is_bold(flags) == (flags \div 16) % 2 = 1

SentenceEndings == { ".", "!", "?", ",", ";", ":" }

\* size > avg_size * (tenths / 10), avg_size the exact mean num/den
SizeAbove(size, avg, tenths) == size * 10 * avg.den > avg.num * tenths

\* is_likely_heading with heading_patterns[:5] for the punctuation override
is_likely_heading_Slice5(text0, size, flags, avg_size) ==
    LET text == Strip(text0)
    IN  IF Len(text) < 3 \/ Len(text) > 200 THEN FALSE
        ELSE IF /\ EndsWithAny(text, SentenceEndings)
                /\ ~AnyMatch(SubSeq(heading_patterns, 1, 5), text)
        THEN FALSE
        ELSE \/ SizeAbove(size, avg_size, 11) /\ is_bold(flags)
             \/ AnyMatch(heading_patterns, text)
             \/ SizeAbove(size, avg_size, 13)

is_likely_heading(text0, size, flags, avg_size) ==
    LET text == Strip(text0)
    IN  IF Len(text) < 3 \/ Len(text) > 200 THEN FALSE
        ELSE IF /\ EndsWithAny(text, SentenceEndings)
                /\ ~AnyMatch(SubSeq(heading_patterns, 1, 6), text)
        THEN FALSE
        ELSE LET size_based == SizeAbove(size, avg_size, 11)
                 bold_text == is_bold(flags)
                 pattern_match == AnyMatch(heading_patterns, text)
             IN  \/ size_based /\ bold_text
                 \/ pattern_match
                 \/ SizeAbove(size, avg_size, 13)

(***************************************************************************)
(* The level sub-patterns and classify_heading_level.                      *)
(***************************************************************************)
\* ^\d+\.
ReDigitsDot == Cat(<< Plus(ClsDigit), ClsDot >>)

\* ^\d+\.\d+
ReDigitsDotDigits == Cat(<< Plus(ClsDigit), ClsDot, Plus(ClsDigit) >>)

looks_like_title(text) ==
    /\ WordCount(text) <= 10
    /\ ~ReMatch(ReDigitsDot, text, FALSE)
    /\ ~StartsWithAny(text, { W_Chapter, W_Section, W_Part })

looks_like_h1(text) ==
    AnyMatch(<< \* ^\d+\.?\s+
                Cat(<< Plus(ClsDigit), Opt(ClsDot), Plus(ClsSpace) >>),
                \* ^[IVX]+\.?\s+
                Cat(<< Plus(Cls({"I", "V", "X"})), Opt(ClsDot), Plus(ClsSpace) >>),
                \* ^Chapter\s+\d+
                Cat(<< Lit(W_Chapter), Plus(ClsSpace), Plus(ClsDigit) >>),
                \* ^Part\s+[A-Z]
                Cat(<< Lit(W_Part), Plus(ClsSpace), ClsAZ >>),
                \* ^[A-Z\s]{5,}$
                Cat(<< Rep(Cls(Upper \cup Whitespace), 5, -1), Eol >>) >>, text)

looks_like_h2(text) ==
    AnyMatch(<< \* ^\d+\.\d+\.?\s+
                Cat(<< Plus(ClsDigit), ClsDot, Plus(ClsDigit), Opt(ClsDot),
                       Plus(ClsSpace) >>),
                \* ^[A-Z]\.?\s+
                Cat(<< ClsAZ, Opt(ClsDot), Plus(ClsSpace) >>) >>, text)

looks_like_h3(text) ==
    AnyMatch(<< \* ^\d+\.\d+\.\d+\.?\s+
                Cat(<< Plus(ClsDigit), ClsDot, Plus(ClsDigit), ClsDot,
                       Plus(ClsDigit), Opt(ClsDot), Plus(ClsSpace) >>),
                \* ^\([a-z]\)\s+
                Cat(<< Cls({"("}), Clsaz, Cls({")"}), Plus(ClsSpace) >>),
                \* ^\d+\)\s+
                Cat(<< Plus(ClsDigit), Cls({")"}), Plus(ClsSpace) >>) >>, text)

\* sorted(set(all_sizes), reverse=True)
RECURSIVE SortedDesc(_)
SortedDesc(S) ==
    IF S = {} THEN << >>
    ELSE LET m == CHOOSE x \in S : \A y \in S : y <= x
         IN  << m >> \o SortedDesc(S \ {m})

Range(seq) == { seq[i] : i \in DOMAIN seq }

\* the value None
None == "None"

\* the title test written out in the size-hierarchy branch (lines 110-112)
RankTitleText(text) ==
    /\ WordCount(text) <= 10
    /\ ~StartsWithAny(text, { << "1", "." >>, << "2", "." >>, << "3", "." >>,
                              W_Chapter, W_Section })
    /\ ~ReMatch(ReDigitsDotDigits, text, FALSE)

classify_heading_level(text0, size, all_sizes) ==
    LET text == Strip(text0)
        unique_sizes == SortedDesc(Range(all_sizes))
    IN  IF Len(unique_sizes) >= 3
        THEN IF /\ size >= unique_sizes[1] /\ size >= title_min_size
                /\ RankTitleText(text)
             THEN "TITLE"
             ELSE IF /\ (size >= unique_sizes[2] \/ size >= h1_min_size)
                     /\ looks_like_h1(text)
             THEN "H1"
             ELSE IF /\ Len(unique_sizes) > 2
                     /\ (size >= unique_sizes[3] \/ size >= h2_min_size)
                     /\ looks_like_h2(text)
             THEN "H2"
             ELSE IF size >= h3_min_size /\ looks_like_h3(text)
             THEN "H3"
             ELSE None
        ELSE IF size >= title_min_size /\ looks_like_title(text) THEN "TITLE"
             ELSE IF size >= h1_min_size /\ looks_like_h1(text) THEN "H1"
             ELSE IF size >= h2_min_size /\ looks_like_h2(text) THEN "H2"
             ELSE IF size >= h3_min_size /\ looks_like_h3(text) THEN "H3"
             ELSE None

(***************************************************************************)
(* _process_toc.  A toc entry is [level, text, page]; doc.metadata is a    *)
(* dict, here a set of <<key, value>> pairs.  Python's None, where a str   *)
(* is expected, is NoneStr.                                                *)
(***************************************************************************)
NoneStr == << "None" >>

\* `not title`
Falsy(t) == t = NoneStr \/ t = << >>

W_Document == << "D", "o", "c", "u", "m", "e", "n", "t" >>

\* dict.get(key, default)
DictGet(d, key, default) ==
    IF \E kv \in d : kv[1] = key
    THEN (CHOOSE kv \in d : kv[1] = key)[2]
    ELSE default

\* HeadingLevel without the final `continue`: deeper levels fall into "H3"
HeadingLevel_NoSkip(level) ==
    IF level = 1 THEN "H1"
    ELSE IF level = 2 THEN "H2"
    ELSE "H3"

\* the if/elif chain on level (lines 250-257); None is `continue`
HeadingLevel(level) ==
    IF level = 1 THEN "H1"
    ELSE IF level = 2 THEN "H2"
    ELSE IF level = 3 THEN "H3"
    ELSE None

\* TocStep without `not title`: every level-1 entry replaces the title
TocStep_LastWins(acc, item) ==
    LET text == Strip(item.text)
    IN  IF item.level \notin 1..3 \/ text = << >> THEN acc
        ELSE IF item.level = 1 THEN [acc EXCEPT !.title = text]
        ELSE [acc EXCEPT !.outline =
                  Append(@, [level |-> IF item.level = 2 THEN "H2" ELSE "H3",
                             text |-> text, page |-> item.page])]

\* TocStep without the title capture: every entry is appended
TocStep_NoCapture(acc, item) ==
    LET text == Strip(item.text)
    IN  IF item.level \notin 1..3 \/ text = << >> THEN acc
        ELSE [acc EXCEPT !.outline =
                  Append(@, [level |-> IF item.level = 1 THEN "H1"
                                       ELSE IF item.level = 2 THEN "H2"
                                       ELSE "H3",
                             text |-> text, page |-> item.page])]

\* one iteration of the loop over toc (lines 246-269), on [outline, title]
TocStep(acc, item) ==
    LET heading_level == HeadingLevel(item.level)
        text == Strip(item.text)
    IN  IF heading_level = None THEN acc
        ELSE IF text = << >> THEN acc
        ELSE IF Falsy(acc.title) /\ item.level = 1
        THEN [acc EXCEPT !.title = text]
        ELSE [acc EXCEPT !.outline =
                  Append(@, [level |-> heading_level, text |-> text,
                             page |-> item.page])]

\* the loop over toc, from entry k on
RECURSIVE TocLoop(_, _, _)
TocLoop(toc, k, acc) ==
    IF k > Len(toc) THEN acc
    ELSE TocLoop(toc, k + 1, TocStep(acc, toc[k]))

\* the state after the loop (line 270)
TocAfterLoop(toc) == TocLoop(toc, 1, [outline |-> << >>, title |-> NoneStr])

\* lines 271-277: the title when the loop captured none
TocFallbackTitle(acc, metadata) ==
    LET title == DictGet(metadata, "title", W_Document)
    IN  IF Falsy(title) \/ title = W_Document
        THEN IF acc.outline # << >> /\ acc.outline[1].level = "H1"
             THEN [title |-> acc.outline[1].text, outline |-> Tail(acc.outline)]
             ELSE [title |-> title, outline |-> acc.outline]
        ELSE [title |-> title, outline |-> acc.outline]

process_toc(toc, metadata) ==
    LET acc == TocAfterLoop(toc)
        fin == IF Falsy(acc.title) THEN TocFallbackTitle(acc, metadata) ELSE acc
    IN  [title |-> IF Falsy(fin.title) THEN W_Document ELSE fin.title,
         outline |-> fin.outline]

(***************************************************************************)
(* extract_text_with_fonts and the text-analysis path of extract_outline.  *)
(* A document's pages are sequences of spans [text, size, flags].          *)
(***************************************************************************)
RECURSIVE PageSpans(_, _, _)
PageSpans(spans, k, page) ==
    IF k > Len(spans) THEN << >>
    ELSE LET text == Strip(spans[k].text)
             rest == PageSpans(spans, k + 1, page)
         IN  IF text # << >> /\ Len(text) > 1
             THEN << [text |-> text, size |-> spans[k].size,
                      flags |-> spans[k].flags, page |-> page] >> \o rest
             ELSE rest

RECURSIVE extract_text_with_fonts(_, _)
extract_text_with_fonts(pages, page_num) ==
    IF page_num >= Len(pages) THEN << >>
    ELSE PageSpans(pages[page_num + 1], 1, page_num + 1)
         \o extract_text_with_fonts(pages, page_num + 1)

RECURSIVE SumSizes(_)
SumSizes(sizes) == IF sizes = << >> THEN 0 ELSE Head(sizes) + SumSizes(Tail(sizes))

\* sum(sizes) / len(sizes) if sizes else 12.0
Mean(sizes) ==
    IF sizes # << >> THEN [num |-> SumSizes(sizes), den |-> Len(sizes)]
    ELSE [num |-> 12, den |-> 1]

\* one iteration of the loop over text_data (lines 201-212), on [headings, title]
SpanStep(acc, item, sizes, avg_size) ==
    IF is_likely_heading(item.text, item.size, item.flags, avg_size)
    THEN LET level == classify_heading_level(item.text, item.size, sizes)
         IN  IF level = None THEN acc
             ELSE IF level = "TITLE" /\ Falsy(acc.title)
             THEN [acc EXCEPT !.title = item.text]
             ELSE IF level \in { "H1", "H2", "H3" }
             THEN [acc EXCEPT !.headings =
                       Append(@, [level |-> level, text |-> item.text,
                                  page |-> item.page])]
             ELSE acc
    ELSE acc

RECURSIVE SpanLoop(_, _, _, _, _)
SpanLoop(text_data, k, acc, sizes, avg_size) ==
    IF k > Len(text_data) THEN acc
    ELSE SpanLoop(text_data, k + 1, SpanStep(acc, text_data[k], sizes, avg_size),
                  sizes, avg_size)

\* the hits collected by the loop (line 213)
Collected(text_data) ==
    LET sizes == [k \in DOMAIN text_data |-> text_data[k].size]
    IN  SpanLoop(text_data, 1, [headings |-> << >>, title |-> NoneStr],
                 sizes, Mean(sizes))

\* ResolveTitle removing only the first H1 entry, not every H1 entry of
\* the title's text
ResolveTitle_FirstOnly(acc, stem) ==
    IF Falsy(acc.title)
    THEN LET H1At == { k \in DOMAIN acc.headings : acc.headings[k].level = "H1" }
         IN  IF H1At # {}
             THEN LET first == CHOOSE k \in H1At : \A j \in H1At : k <= j
                  IN  [title |-> acc.headings[first].text,
                       headings |-> SubSeq(acc.headings, 1, first - 1)
                                    \o SubSeq(acc.headings, first + 1,
                                              Len(acc.headings))]
             ELSE [title |-> stem, headings |-> acc.headings]
    ELSE acc

\* lines 215-222: the title when no TITLE span was found
ResolveTitle(acc, stem) ==
    IF Falsy(acc.title)
    THEN LET IsH1(h) == h.level = "H1"
             h1_headings == SelectSeq(acc.headings, IsH1)
         IN  IF h1_headings # << >>
             THEN LET title == h1_headings[1].text
                      Other(h) == ~(h.level = "H1" /\ h.text = title)
                  IN  [title |-> title, headings |-> SelectSeq(acc.headings, Other)]
             ELSE [title |-> stem, headings |-> acc.headings]
    ELSE acc

\* list.sort(key=page): a stable sort, by insertion
RECURSIVE InsertByPage(_, _)
InsertByPage(sorted, h) ==
    IF sorted = << >> THEN << h >>
    ELSE IF sorted[Len(sorted)].page <= h.page THEN Append(sorted, h)
    ELSE Append(InsertByPage(SubSeq(sorted, 1, Len(sorted) - 1), h),
                sorted[Len(sorted)])

RECURSIVE SortByPage(_, _)
SortByPage(headings, k) ==
    IF k = 0 THEN << >>
    ELSE InsertByPage(SortByPage(headings, k - 1), headings[k])

\* {"title": Path(pdf_path).stem, "outline": []}
Fallback(stem) == [title |-> stem, outline |-> << >>]

\* lines 188-232: what the text-analysis path returns, and whether it
\* reached doc.close()
text_analysis(pages, stem) ==
    LET text_data == extract_text_with_fonts(pages, 0)
    IN  IF text_data = << >>
        THEN [result |-> Fallback(stem), closed |-> FALSE]
        ELSE LET fin == ResolveTitle(Collected(text_data), stem)
             IN  [result |-> [title |-> fin.title,
                              outline |-> SortByPage(fin.headings,
                                                     Len(fin.headings))],
                  closed |-> TRUE]

(***************************************************************************)
(* The inputs: the documents of the input directory.  A document is        *)
(* [err, toc, metadata, pages]: err is where the parser raises for it      *)
(* ("open": fitz.open, "text": page.get_text), toc is doc.get_toc().       *)
(***************************************************************************)
MaxFiles == 2

MaxToc == 2

MaxSpans == 3

SeqsUpTo(S, n) == UNION { [1..k -> S] : k \in 0..n }

T_INTRO == << "I", "N", "T", "R", "O" >>

T_Numbered == << "1", ".", " ", "A", "b" >>

T_SubNumbered == << "1", ".", "1", " ", "A", "b" >>

T_Body == << "a", "b", " ", "c", "d", "." >>

T_Meta == << "M", "e", "t", "a" >>

SpanSet ==
    { [text |-> T_INTRO, size |-> 20, flags |-> 0],
      [text |-> T_INTRO, size |-> 14, flags |-> 0],
      [text |-> << " " >> \o T_Numbered \o << " " >>, size |-> 14, flags |-> 16],
      [text |-> T_SubNumbered, size |-> 12, flags |-> 0],
      [text |-> T_Body, size |-> 10, flags |-> 0],
      [text |-> << "x" >>, size |-> 10, flags |-> 0] }

TocEntries ==
    [level : 1..4, text : { << >>, << " ", "A" >>, << "B" >> }, page : 1..2]

Metadatas ==
    { {}, { << "title", << >> >> }, { << "title", W_Document >> },
      { << "title", T_Meta >> } }

SamplePages ==
    << << [text |-> T_INTRO, size |-> 20, flags |-> 0],
          [text |-> T_Numbered, size |-> 14, flags |-> 16],
          [text |-> T_Body, size |-> 10, flags |-> 0] >> >>

\* documents without an embedded outline: up to MaxSpans spans on two pages
SpanDocs ==
    UNION { { [err |-> "none", toc |-> << >>, metadata |-> {},
               pages |-> << SubSeq(f, 1, c), SubSeq(f, c + 1, Len(f)) >>] :
              c \in 0..Len(f) } : f \in SeqsUpTo(SpanSet, MaxSpans) }

\* documents with an embedded outline of up to MaxToc entries
TocDocs ==
    { [err |-> "none", toc |-> t, metadata |-> m, pages |-> SamplePages] :
        t \in SeqsUpTo(TocEntries, MaxToc) \ { << >> }, m \in Metadatas }

\* documents the parser raises for, and the document without pages
OddDocs ==
    { [err |-> "open", toc |-> << >>, metadata |-> {}, pages |-> << >>],
      [err |-> "text", toc |-> << >>, metadata |-> {}, pages |-> SamplePages],
      [err |-> "none", toc |-> << >>, metadata |-> {}, pages |-> << >>] }

\* the documents of the batch runs: one of each kind
BatchDocs ==
    OddDocs \cup
    { [err |-> "none", toc |-> << >>, metadata |-> {}, pages |-> SamplePages],
      [err |-> "none",
       toc |-> << [level |-> 1, text |-> << "B" >>, page |-> 1],
                  [level |-> 2, text |-> << " ", "A" >>, page |-> 2] >>,
       metadata |-> {}, pages |-> SamplePages] }

\* Path(pdf_path).stem of the k-th file
Stem(k) == << LowerSeq[k] >>

(***************************************************************************)
(* The state of process_pdfs.                                              *)
(***************************************************************************)
VARIABLES
    pdf_files,   \* list(input_dir.glob("*.pdf")): the documents, in order
    i,           \* the position of the for loop in pdf_files (0: not started)
    pc,          \* where process_pdfs is
    handles,     \* the documents (positions) that are open
    result,      \* what extract_outline returned for pdf_files[i]
    output,      \* the content of <stem>.json per position, Nothing if absent
    attempted,   \* history: the positions extract_outline was called for
    failed,      \* history: the positions that met an exception
    analysed,    \* history: the text-analysis path ran for pdf_files[i]
    call,        \* a single call of a classifier function: its arguments
    ret          \* and what it returned

vars ==
    << pdf_files, i, pc, handles, result, output, attempted, failed, analysed,
       call, ret >>

Nothing == [title |-> NoneStr, outline |-> << >>]

NoCall == [fn |-> "none", text |-> << >>, size |-> 0, flags |-> 0,
           avg_size |-> [num |-> 0, den |-> 1], all_sizes |-> << >>]

InitFiles(files) ==
    /\ pdf_files \in files
    /\ i = 0
    /\ pc = "start"
    /\ handles = {}
    /\ result = Nothing
    /\ output = [k \in DOMAIN pdf_files |-> Nothing]
    /\ attempted = << >>
    /\ failed = {}
    /\ analysed = FALSE
    /\ call = NoCall
    /\ ret = None

\* a batch over up to MaxFiles documents
Init == InitFiles(SeqsUpTo(BatchDocs, MaxFiles))

\* a run over one document: any embedded outline, or one of the batch's
InitToc == InitFiles({ << d >> : d \in TocDocs \cup BatchDocs })

\* a run over one document: any spans, or one of the batch's
InitText == InitFiles({ << d >> : d \in SpanDocs \cup BatchDocs })

pdf == pdf_files[i]

Classifier == UNCHANGED << call, ret >>

\* lines 297-301: no PDF files found
NoPdfFiles ==
    /\ pc = "start" /\ pdf_files = << >>
    /\ pc' = "done"
    /\ UNCHANGED << pdf_files, i, handles, result, output, attempted, failed,
                    analysed >>
    /\ Classifier

\* line 303: the for loop takes the next file and calls extract_outline
NextPdf ==
    /\ \/ pc = "start" /\ pdf_files # << >>
       \/ pc = "loop" /\ i < Len(pdf_files)
    /\ i' = i + 1
    /\ pc' = "open"
    /\ result' = Nothing
    /\ analysed' = FALSE
    /\ attempted' = Append(attempted, i + 1)
    /\ UNCHANGED << pdf_files, handles, output, failed >>
    /\ Classifier

\* the for loop is exhausted
BatchDone ==
    /\ pc = "loop" /\ i = Len(pdf_files)
    /\ pc' = "done"
    /\ UNCHANGED << pdf_files, i, handles, result, output, attempted, failed,
                    analysed >>
    /\ Classifier

\* line 180: fitz.open raises; lines 234-239 return the fallback
OpenRaises ==
    /\ pc = "open" /\ pdf.err = "open"
    /\ result' = Fallback(Stem(i))
    /\ failed' = failed \cup {i}
    /\ pc' = "write"
    /\ UNCHANGED << pdf_files, i, handles, output, attempted, analysed >>
    /\ Classifier

\* line 180: fitz.open
Open ==
    /\ pc = "open" /\ pdf.err # "open"
    /\ handles' = handles \cup {i}
    /\ pc' = "toc"
    /\ UNCHANGED << pdf_files, i, result, output, attempted, failed, analysed >>
    /\ Classifier

\* lines 183-185: a non-empty embedded outline is returned through _process_toc
TocPath ==
    /\ pc = "toc" /\ pdf.toc # << >>
    /\ result' = process_toc(pdf.toc, pdf.metadata)
    /\ pc' = "write"
    /\ UNCHANGED << pdf_files, i, handles, output, attempted, failed, analysed >>
    /\ Classifier

\* lines 188-239: the text analysis, to its return
TextPath ==
    /\ pc = "toc" /\ pdf.toc = << >>
    /\ analysed' = TRUE
    /\ IF pdf.err = "text"
       THEN /\ result' = Fallback(Stem(i))
            /\ failed' = failed \cup {i}
            /\ UNCHANGED handles
       ELSE LET r == text_analysis(pdf.pages, Stem(i))
            IN  /\ result' = r.result
                /\ handles' = IF r.closed THEN handles \ {i} ELSE handles
                /\ UNCHANGED failed
    /\ pc' = "write"
    /\ UNCHANGED << pdf_files, i, output, attempted >>
    /\ Classifier

\* lines 309-313: the output file is written
Write ==
    /\ pc = "write"
    /\ output' = [output EXCEPT ![i] = result]
    /\ pc' = "loop"
    /\ UNCHANGED << pdf_files, i, handles, result, attempted, failed, analysed >>
    /\ Classifier

\* lines 310-311: open or json.dump raises; control goes to line 315
WriteRaises ==
    /\ pc = "write"
    /\ failed' = failed \cup {i}
    /\ pc' = "except"
    /\ UNCHANGED << pdf_files, i, handles, result, output, attempted, analysed >>
    /\ Classifier

\* lines 318-324: the handler writes the fallback output
FallbackWrite ==
    /\ pc = "except"
    /\ output' = [output EXCEPT ![i] = Fallback(Stem(i))]
    /\ pc' = "loop"
    /\ UNCHANGED << pdf_files, i, handles, result, attempted, failed, analysed >>
    /\ Classifier

\* lines 319-323: open or json.dump raises inside the handler: the exception
\* leaves process_pdfs
FallbackWriteRaises ==
    /\ pc = "except"
    /\ pc' = "aborted"
    /\ UNCHANGED << pdf_files, i, handles, result, output, attempted, failed,
                    analysed >>
    /\ Classifier

\* the interpreter may finalize a document that extract_outline returned
\* without closing, at any time after the return
Finalize ==
    /\ \E h \in handles :
          /\ ~(h = i /\ pc = "toc")
          /\ handles' = handles \ {h}
    /\ UNCHANGED << pdf_files, i, pc, result, output, attempted, failed, analysed >>
    /\ Classifier

Next ==
    \/ NoPdfFiles
    \/ NextPdf
    \/ BatchDone
    \/ OpenRaises
    \/ Open
    \/ TocPath
    \/ TextPath
    \/ Write
    \/ WriteRaises
    \/ FallbackWrite
    \/ FallbackWriteRaises
    \/ Finalize

Spec == Init /\ [][Next]_vars

\* NoPdfFiles cannot fire when there is one document
NextOne ==
    \/ NextPdf
    \/ BatchDone
    \/ OpenRaises
    \/ Open
    \/ TocPath
    \/ TextPath
    \/ Write
    \/ WriteRaises
    \/ FallbackWrite
    \/ FallbackWriteRaises
    \/ Finalize

SpecToc == InitToc /\ [][NextOne]_vars

SpecText == InitText /\ [][NextOne]_vars

(***************************************************************************)
(* Single calls of is_likely_heading and classify_heading_level, on texts  *)
(* built as prefix, words, padding, suffix.                                *)
(***************************************************************************)
MaxDetectWords == 2

MaxWords == 11

LongPad == 195

Prefixes ==
    { << >>,
      << "1" >>,
      << "1", "." >>,
      << "4", "." >>,
      << "1", ".", "1" >>,
      << "1", ".", "1", ".", "1" >>,
      << "I", "V", "." >>,
      << "A", "." >>,
      W_Chapter \o << " ", "1", ":" >>,
      W_Section \o << " ", "2", ":" >>,
      W_Part \o << " ", "A" >>,
      << "(", "a", ")" >>,
      << "1", ")" >> }

BodyWords == { << "S", "c", "o", "p", "e" >>, << "S", "C", "O", "P", "E" >> }

RECURSIVE Words(_, _)
Words(w, k) == IF k = 0 THEN << >> ELSE << " " >> \o w \o Words(w, k - 1)

Pad(n) == [k \in 1..n |-> "a"]

DetectTexts ==
    { p \o Words(w, k) \o Pad(n) \o x :
        p \in Prefixes, w \in BodyWords, k \in 0..MaxDetectWords,
        n \in { 0, LongPad },
        x \in { << >>, << "." >>, << ":" >>, << " " >> } }

ClassifyTexts ==
    { p \o Words(w, k) \o x :
        p \in Prefixes, w \in BodyWords, k \in 0..MaxWords,
        x \in { << >>, << " " >> } }

\* mean font sizes: 10 and 35/3
MeanSizes == { [num |-> 10, den |-> 1], [num |-> 35, den |-> 3] }

SizeLists ==
    { << 20, 14, 10 >>, << 16, 12, 11, 10 >>, << 15, 14, 13 >>, << 20, 10 >>,
      << 14 >> }

InitCalls == InitFiles({ << >> })

Batch ==
    UNCHANGED << pdf_files, i, pc, handles, result, output, attempted, failed,
                 analysed >>

CallIsLikelyHeading ==
    /\ call = NoCall
    /\ \E text \in DetectTexts, size \in { 10, 12, 14 }, flags \in { 0, 4, 16 },
          avg_size \in MeanSizes :
          /\ call' = [fn |-> "is_likely_heading", text |-> text, size |-> size,
                      flags |-> flags, avg_size |-> avg_size,
                      all_sizes |-> << >>]
          /\ ret' = is_likely_heading(text, size, flags, avg_size)
    /\ Batch

CallClassifyHeadingLevel ==
    /\ call = NoCall
    /\ \E text \in ClassifyTexts, all_sizes \in SizeLists :
          \E size \in Range(all_sizes) :
             /\ call' = [fn |-> "classify_heading_level", text |-> text,
                         size |-> size, flags |-> 0,
                         avg_size |-> [num |-> 0, den |-> 1],
                         all_sizes |-> all_sizes]
             /\ ret' = classify_heading_level(text, size, all_sizes)
    /\ Batch

NextCalls == CallIsLikelyHeading \/ CallClassifyHeadingLevel

SpecCalls == InitCalls /\ [][NextCalls]_vars

(***************************************************************************)
(* The properties.                                                         *)
(***************************************************************************)
\* extract_outline has returned for pdf_files[i]
Returned == i >= 1 /\ pc \in { "write", "except", "loop", "done", "aborted" }

\* extract_outline returns for pdf_files[i] through _process_toc
TocReturned == i >= 1 /\ pc = "write" /\ pdf.err # "open" /\ pdf.toc # << >>

\* ... through the normal end of the text analysis
TextReturned ==
    /\ i >= 1 /\ pc = "write" /\ pdf.err = "none" /\ pdf.toc = << >>
    /\ extract_text_with_fonts(pdf.pages, 0) # << >>

Min(S) == CHOOSE x \in S : \A y \in S : x <= y

\* the values f(k) for the k of S, in increasing order of k
SeqOver(n, S, f) ==
    LET In(k) == k \in S
        ks == SelectSeq([k \in 1..n |-> k], In)
    IN  [j \in DOMAIN ks |-> f[ks[j]]]

\* C1: no entry of a returned outline has level H1 and the record's title as
\* its text.
C1_Dedup ==
    Returned =>
        \A k \in DOMAIN result.outline :
            ~(result.outline[k].level = "H1" /\ result.outline[k].text = result.title)

\* C2: the entries of a returned outline are in non-decreasing page order.
C2_Sorted ==
    Returned =>
        \A k \in 1..(Len(result.outline) - 1) :
            result.outline[k].page <= result.outline[k + 1].page

\* C3: with a non-empty embedded outline the text analysis never runs, the
\* record is the one _process_toc builds, every outline entry comes from an
\* embedded entry of level 1 to 3, and so does a title taken from the
\* embedded outline.
C3_TocPriority ==
    (i >= 1 /\ pdf.toc # << >>) =>
        /\ ~analysed
        /\ TocReturned =>
              LET toc == pdf.toc
                  Names == << "H1", "H2", "H3" >>
              IN  /\ result = process_toc(toc, pdf.metadata)
                  /\ \A e \in Range(result.outline) :
                        \E k \in DOMAIN toc :
                           /\ toc[k].level \in 1..3
                           /\ e = [level |-> Names[toc[k].level],
                                   text |-> Strip(toc[k].text),
                                   page |-> toc[k].page]
                  /\ Len(result.outline)
                        <= Cardinality({ k \in DOMAIN toc : toc[k].level \in 1..3 })
                  /\ \/ \E k \in DOMAIN toc :
                           toc[k].level = 1 /\ result.title = Strip(toc[k].text)
                     \/ result.title = W_Document
                     \/ << "title", result.title >> \in pdf.metadata

\* C3's case: an embedded outline with a level-4 entry of non-empty text was
\* turned into a non-empty outline.
C3_Witness ==
    /\ TocReturned
    /\ result.outline # << >>
    /\ \E k \in DOMAIN pdf.toc :
          pdf.toc[k].level = 4 /\ Strip(pdf.toc[k].text) # << >>

\* the first entry of level 1 with non-empty trimmed text, 0 if there is none
FirstTitleEntry(toc) ==
    LET S == { k \in DOMAIN toc : toc[k].level = 1 /\ Strip(toc[k].text) # << >> }
    IN  IF S = {} THEN 0 ELSE Min(S)

TocEntryAsHeading(e) ==
    [level |-> << "H1", "H2", "H3" >>[e.level], text |-> Strip(e.text),
     page |-> e.page]

\* C4 as stated: the first level-1 entry with non-empty trimmed text is the
\* title, and the outline holds every other entry of level 1, 2 or 3, in
\* input order.
C4_EveryOtherEntry ==
    TocReturned =>
        LET toc == pdf.toc
            first == FirstTitleEntry(toc)
            Entry == [k \in DOMAIN toc |-> TocEntryAsHeading(toc[k])]
        IN  /\ first # 0 => result.title = Strip(toc[first].text)
            /\ result.outline =
                  SeqOver(Len(toc),
                          { k \in DOMAIN toc : toc[k].level \in 1..3 /\ k # first },
                          Entry)

\* C4 amended: the first level-1 entry with non-empty trimmed text is the
\* title, and the outline holds every other entry of level 1, 2 or 3 whose
\* trimmed text is not empty, in input order, with its trimmed text.
C4_EveryOtherNonEmptyEntry ==
    TocReturned =>
        LET toc == pdf.toc
            first == FirstTitleEntry(toc)
            Entry == [k \in DOMAIN toc |-> TocEntryAsHeading(toc[k])]
        IN  /\ first # 0 => result.title = Strip(toc[first].text)
            /\ result.outline =
                  SeqOver(Len(toc),
                          { k \in DOMAIN toc :
                              /\ toc[k].level \in 1..3
                              /\ k # first
                              /\ Strip(toc[k].text) # << >> },
                          Entry)

\* C4's case: a title was captured and a later level-1 entry was appended.
C4_Witness ==
    /\ TocReturned
    /\ FirstTitleEntry(pdf.toc) # 0
    /\ \E k \in DOMAIN pdf.toc :
          /\ k > FirstTitleEntry(pdf.toc)
          /\ pdf.toc[k].level = 1
          /\ TocEntryAsHeading(pdf.toc[k]) \in Range(result.outline)

\* C5: the batch is never aborted; when it ends every file was attempted
\* once, in order, and every failed file has the fallback record as output.
C5_BatchCompletes ==
    /\ pc # "aborted"
    /\ attempted = [k \in 1..i |-> k]
    /\ pc = "done" =>
          /\ i = Len(pdf_files)
          /\ \A k \in failed : output[k] = Fallback(Stem(k))

\* the level each span of the text analysis gets, None when it is no heading
SpanLevels(text_data) ==
    LET sizes == [k \in DOMAIN text_data |-> text_data[k].size]
    IN  [k \in DOMAIN text_data |->
           IF is_likely_heading(text_data[k].text, text_data[k].size,
                                text_data[k].flags, Mean(sizes))
           THEN classify_heading_level(text_data[k].text, text_data[k].size, sizes)
           ELSE None]

\* the title C6 names
C6_Title(text_data, lv, stem) ==
    LET titles == { k \in DOMAIN lv : lv[k] = "TITLE" }
        h1s == { k \in DOMAIN lv : lv[k] = "H1" }
    IN  IF titles # {} THEN text_data[Min(titles)].text
        ELSE IF h1s # {} THEN text_data[Min(h1s)].text
        ELSE stem

\* C6 as stated: the title is the first TITLE hit, else the first H1 hit,
\* else the stem; only the H1 hit that became the title leaves the headings.
C6_OnlyThatEntryRemoved ==
    TextReturned =>
        LET text_data == extract_text_with_fonts(pdf.pages, 0)
            lv == SpanLevels(text_data)
            titles == { k \in DOMAIN lv : lv[k] = "TITLE" }
            h1s == { k \in DOMAIN lv : lv[k] = "H1" }
            removed == IF titles = {} /\ h1s # {} THEN { Min(h1s) } ELSE {}
            Hit == [k \in DOMAIN lv |->
                      [level |-> lv[k], text |-> text_data[k].text,
                       page |-> text_data[k].page]]
        IN  /\ result.title = C6_Title(text_data, lv, Stem(i))
            /\ result.outline =
                  SeqOver(Len(text_data),
                          { k \in DOMAIN lv : lv[k] \in { "H1", "H2", "H3" } }
                             \ removed,
                          Hit)

\* C6 amended: the title is the first TITLE hit, else the first H1 hit,
\* else the stem; when the title is the first H1 hit, every H1 hit with the
\* title's text leaves the headings and every other heading remains.
C6_EveryEqualH1Removed ==
    TextReturned =>
        LET text_data == extract_text_with_fonts(pdf.pages, 0)
            lv == SpanLevels(text_data)
            titles == { k \in DOMAIN lv : lv[k] = "TITLE" }
            h1s == { k \in DOMAIN lv : lv[k] = "H1" }
            removed == IF titles = {} /\ h1s # {}
                       THEN { k \in h1s :
                                text_data[k].text = text_data[Min(h1s)].text }
                       ELSE {}
            Hit == [k \in DOMAIN lv |->
                      [level |-> lv[k], text |-> text_data[k].text,
                       page |-> text_data[k].page]]
        IN  /\ result.title = C6_Title(text_data, lv, Stem(i))
            /\ result.outline =
                  SeqOver(Len(text_data),
                          { k \in DOMAIN lv : lv[k] \in { "H1", "H2", "H3" } }
                             \ removed,
                          Hit)

\* C6's case: no TITLE hit, two H1 hits of the same text and another heading,
\* which remains.
C6_Witness ==
    /\ TextReturned
    /\ LET text_data == extract_text_with_fonts(pdf.pages, 0)
           lv == SpanLevels(text_data)
       IN  /\ \A k \in DOMAIN lv : lv[k] # "TITLE"
           /\ \E j, k \in DOMAIN lv :
                 /\ j < k /\ lv[j] = "H1" /\ lv[k] = "H1"
                 /\ text_data[j].text = text_data[k].text
                 /\ result.title = text_data[j].text
           /\ result.outline # << >>

\* C7: with at least 3 distinct sizes, TITLE is returned only for a span of
\* the largest size, of size 16 or more, whose text passes _looks_like_title.
C7_RankTitle ==
    (/\ call.fn = "classify_heading_level"
     /\ Cardinality(Range(call.all_sizes)) >= 3
     /\ ret = "TITLE") =>
        /\ \A x \in Range(call.all_sizes) : x <= call.size
        /\ call.size >= 16
        /\ looks_like_title(Strip(call.text))

\* C8: is_likely_heading rejects a trimmed text shorter than 3 or longer
\* than 200, rejects a text that ends in . ! ? , ; : and matches none of the
\* first six patterns, and otherwise accepts exactly when it is large and
\* bold, or matches a pattern, or is very large.
C8_Detector ==
    call.fn = "is_likely_heading" =>
        LET t == Strip(call.text)
            short_or_long == Len(t) < 3 \/ Len(t) > 200
            numbered == \E k \in 1..6 : ReMatch(heading_patterns[k], t, TRUE)
            sentence == /\ t # << >>
                        /\ t[Len(t)] \in { ".", "!", "?", ",", ";", ":" }
                        /\ ~numbered
            mean == call.avg_size
            large == call.size * 10 * mean.den > 11 * mean.num
            very_large == call.size * 10 * mean.den > 13 * mean.num
            bold == (call.flags \div 16) % 2 = 1
            matched == \E k \in 1..9 : ReMatch(heading_patterns[k], t, TRUE)
        IN  IF short_or_long \/ sentence THEN ret = FALSE
            ELSE ret = ((large /\ bold) \/ matched \/ very_large)

\* C8's case: a text that ends in a colon was accepted because it matches a
\* numbering pattern.
C8_Witness ==
    /\ call.fn = "is_likely_heading"
    /\ ret = TRUE
    /\ LET t == Strip(call.text)
       IN  /\ t[Len(t)] = ":"
           /\ \E k \in 1..6 : ReMatch(heading_patterns[k], t, TRUE)

\* C9: when the loop of _process_toc ends without a title, the outline has
\* no H1 entry, the promotion step changes nothing, and the title is the
\* metadata title if that is non-empty and "Document" otherwise.
C9_NoTitleNoH1 ==
    TocReturned =>
        LET acc == TocAfterLoop(pdf.toc)
            meta == IF \E kv \in pdf.metadata : kv[1] = "title" /\ kv[2] # << >>
                    THEN (CHOOSE kv \in pdf.metadata : kv[1] = "title")[2]
                    ELSE W_Document
        IN  Falsy(acc.title) =>
               /\ \A k \in DOMAIN acc.outline : acc.outline[k].level # "H1"
               /\ result.outline = acc.outline
               /\ result.title = meta

\* C9's case: the loop ended without a title, with a non-empty outline, and
\* the metadata gave no title.
C9_Witness ==
    /\ TocReturned
    /\ Falsy(TocAfterLoop(pdf.toc).title)
    /\ result.outline # << >>
    /\ result.title = W_Document
    /\ \E k \in DOMAIN pdf.toc : pdf.toc[k].level = 1

\* C10: once extract_outline has returned, the document it opened is closed.
C10_ClosedOnReturn == Returned => handles = {}

====
